---- MODULE Spec2Model ----
(***************************************************************************)
(* A model of src/src/index.ts: the alpha-vantage MCP server.  The module  *)
(* body reads the credential, registers seven tools on an McpServer and    *)
(* main() connects a stdio transport.  Every tool handler builds a         *)
(* parameter object, awaits makeAlphaVantageRequest and renders either     *)
(* JSON.stringify(data, null, 2) or a fixed failure text.                  *)
(***************************************************************************)
EXTENDS Integers, Sequences, FiniteSets, TLC

VARIABLES env, API_KEY, pc, tools, transport, stdout, stderr, calls, nCalls

vars == <<env, API_KEY, pc, tools, transport, stdout, stderr, calls, nCalls>>

(***************************************************************************)
(* Bounds of the model.                                                    *)
(***************************************************************************)
\* tool invocations that may be suspended at the same time
MaxInFlight == 2
\* tool invocations accepted over one run of the process
MaxCalls == 2

(***************************************************************************)
(* JSON values.  A value is a tagged tuple:                                *)
(*   <<"null">>, <<"bool", b>>, <<"num", n>>, <<"str", chars>>,            *)
(*   <<"arr", <<v1, ..., vn>>>>, <<"obj", << <<key1, v1>>, ... >>>>        *)
(* where chars and keys are sequences of one-character strings and numbers *)
(* are integers.  A text is a sequence of one-character strings.           *)
(***************************************************************************)
JNull == <<"null">>
JBool(b) == <<"bool", b>>
JNum(n) == <<"num", n>>
JStr(s) == <<"str", s>>
JArr(a) == <<"arr", a>>
JObj(m) == <<"obj", m>>

NL == "\n"
QUOTE == "\""
BACKSLASH == "\\"

\* the third argument of JSON.stringify(data, null, 2)
IndentWidth == 2

DigitChar == <<"0", "1", "2", "3", "4", "5", "6", "7", "8", "9">>

RECURSIVE Digits(_)
Digits(n) ==
  IF n < 10 THEN <<DigitChar[n + 1]>>
  ELSE Digits(n \div 10) \o <<DigitChar[(n % 10) + 1]>>

NumText(n) == IF n < 0 THEN <<"-">> \o Digits(0 - n) ELSE Digits(n)

RECURSIVE Spaces(_)
Spaces(n) == IF n <= 0 THEN <<>> ELSE <<" ">> \o Spaces(n - 1)

EscapeChar(c) ==
  IF c = QUOTE THEN <<BACKSLASH, QUOTE>>
  ELSE IF c = BACKSLASH THEN <<BACKSLASH, BACKSLASH>>
  ELSE IF c = NL THEN <<BACKSLASH, "n">>
  ELSE <<c>>

RECURSIVE EscapeChars(_)
EscapeChars(s) ==
  IF s = <<>> THEN <<>> ELSE EscapeChar(Head(s)) \o EscapeChars(Tail(s))

QuoteText(s) == <<QUOTE>> \o EscapeChars(s) \o <<QUOTE>>

\* JSON.stringify(v, null, IndentWidth) with v nested at indentation `ind`
RECURSIVE StringifyAt(_, _), ItemsText(_, _), MembersText(_, _)
StringifyAt(v, ind) ==
  CASE v[1] = "null" -> <<"n", "u", "l", "l">>
    [] v[1] = "bool" ->
         IF v[2] THEN <<"t", "r", "u", "e">> ELSE <<"f", "a", "l", "s", "e">>
    [] v[1] = "num" -> NumText(v[2])
    [] v[1] = "str" -> QuoteText(v[2])
    [] v[1] = "arr" ->
         IF v[2] = <<>> THEN <<"[", "]">>
         ELSE <<"[", NL>> \o ItemsText(v[2], ind + IndentWidth)
                \o <<NL>> \o Spaces(ind) \o <<"]">>
    [] v[1] = "obj" ->
         IF v[2] = <<>> THEN <<"{", "}">>
         ELSE <<"{", NL>> \o MembersText(v[2], ind + IndentWidth)
                \o <<NL>> \o Spaces(ind) \o <<"}">>

ItemsText(items, ind) ==
  Spaces(ind) \o StringifyAt(Head(items), ind)
    \o (IF Len(items) = 1 THEN <<>>
        ELSE <<",", NL>> \o ItemsText(Tail(items), ind))

MembersText(members, ind) ==
  Spaces(ind) \o QuoteText(Head(members)[1]) \o <<":", " ">>
    \o StringifyAt(Head(members)[2], ind)
    \o (IF Len(members) = 1 THEN <<>>
        ELSE <<",", NL>> \o MembersText(Tail(members), ind))

Stringify(v) == StringifyAt(v, 0)

\* JavaScript truthiness of a parsed body: !v is true for null, false, 0, ""
Falsy(v) ==
  \/ v[1] = "null"
  \/ v[1] = "bool" /\ v[2] = FALSE
  \/ v[1] = "num" /\ v[2] = 0
  \/ v[1] = "str" /\ v[2] = <<>>

(***************************************************************************)
(* Optional values: undefined / null is None, a present value x is Some(x) *)
(***************************************************************************)
None == <<>>
Some(x) == <<x>>

(***************************************************************************)
(* The tool registry: names, argument schemas, parameter objects and       *)
(* failure texts of the seven server.tool(...) registrations.              *)
(***************************************************************************)
\* the server.tool calls of the module body, in source order
ToolOrder ==
  <<"get_stock_price", "get_company_overview", "get_daily_time_series",
    "get_weekly_time_series", "get_forex_rate", "get_crypto_price",
    "get_technical_indicator">>

ToolNames == {ToolOrder[i] : i \in 1..Len(ToolOrder)}

\* z.string()
ZString(name) ==
  [name |-> name, kind |-> "string", allowed |-> {}, default |-> None]

\* z.enum(allowed).default(dflt)
ZEnumDefault(name, allowed, dflt) ==
  [name |-> name, kind |-> "enum", allowed |-> allowed, default |-> Some(dflt)]

OutputSizes == {"compact", "full"}

Intervals ==
  {"1min", "5min", "15min", "30min", "60min", "daily", "weekly", "monthly"}

\* the raw shape passed as third argument of each server.tool call
Schema(tool) ==
  CASE tool = "get_stock_price" -> {ZString("symbol")}
    [] tool = "get_company_overview" -> {ZString("symbol")}
    [] tool = "get_daily_time_series" ->
         {ZString("symbol"), ZEnumDefault("outputsize", OutputSizes, "compact")}
    [] tool = "get_weekly_time_series" -> {ZString("symbol")}
    [] tool = "get_forex_rate" ->
         {ZString("from_currency"), ZString("to_currency")}
    [] tool = "get_crypto_price" -> {ZString("symbol"), ZString("market")}
    [] tool = "get_technical_indicator" ->
         {ZString("symbol"), ZString("indicator"),
          ZEnumDefault("interval", Intervals, "daily")}

SchemaKeys(tool) == {f.name : f \in Schema(tool)}

\* ParseField without the check of an enumerated field against its values
ParseFieldAnyString(f, raw) ==
  IF f.name \notin DOMAIN raw THEN f.default ELSE Some(raw[f.name])

\* one field of the argument object against its schema entry:
\* None when the field is rejected, Some(value) when it is accepted
ParseField(f, raw) ==
  IF f.name \notin DOMAIN raw THEN f.default
  ELSE IF f.kind = "enum" /\ raw[f.name] \notin f.allowed THEN None
  ELSE Some(raw[f.name])

\* the schema layer in front of every handler: every declared field must be
\* accepted; keys the schema does not declare are dropped
ArgsValid(tool, raw) == \A f \in Schema(tool) : ParseField(f, raw) # None

FieldOf(tool, k) == CHOOSE f \in Schema(tool) : f.name = k

ParsedArgs(tool, raw) ==
  [k \in {j \in SchemaKeys(tool) : ParseField(FieldOf(tool, j), raw) # None} |->
     ParseField(FieldOf(tool, k), raw)[1]]

\* a destructured handler argument: undefined when the object lacks it
Arg(args, k) == IF k \in DOMAIN args THEN Some(args[k]) ELSE None

\* IndicatorFunction as a fixed discriminator
IndicatorFunctionFixed(args) == Some("SMA")

\* the discriminator get_technical_indicator passes as `function`
IndicatorFunction(args) == Arg(args, "indicator")

\* ParamsOf spreading the whole argument object: { function: ..., ...args }
ParamsOfSpreadArgs(tool, args) ==
  [k \in {"function"} \cup DOMAIN args |->
     IF k = "function"
       THEN (CASE tool = "get_stock_price" -> Some("GLOBAL_QUOTE")
               [] tool = "get_company_overview" -> Some("OVERVIEW")
               [] tool = "get_daily_time_series" -> Some("TIME_SERIES_DAILY")
               [] tool = "get_weekly_time_series" -> Some("TIME_SERIES_WEEKLY")
               [] tool = "get_forex_rate" -> Some("CURRENCY_EXCHANGE_RATE")
               [] tool = "get_crypto_price" -> Some("CRYPTO_INTRADAY")
               [] tool = "get_technical_indicator" -> Arg(args, "indicator"))
       ELSE Some(args[k])]

\* the object literal each handler passes to makeAlphaVantageRequest
ParamsOf(tool, args) ==
  CASE tool = "get_stock_price" ->
         [function |-> Some("GLOBAL_QUOTE"), symbol |-> Arg(args, "symbol")]
    [] tool = "get_company_overview" ->
         [function |-> Some("OVERVIEW"), symbol |-> Arg(args, "symbol")]
    [] tool = "get_daily_time_series" ->
         [function |-> Some("TIME_SERIES_DAILY"), symbol |-> Arg(args, "symbol"),
          outputsize |-> Arg(args, "outputsize")]
    [] tool = "get_weekly_time_series" ->
         [function |-> Some("TIME_SERIES_WEEKLY"), symbol |-> Arg(args, "symbol")]
    [] tool = "get_forex_rate" ->
         [function |-> Some("CURRENCY_EXCHANGE_RATE"),
          from_currency |-> Arg(args, "from_currency"),
          to_currency |-> Arg(args, "to_currency")]
    [] tool = "get_crypto_price" ->
         [function |-> Some("CRYPTO_INTRADAY"), symbol |-> Arg(args, "symbol"),
          market |-> Arg(args, "market")]
    [] tool = "get_technical_indicator" ->
         [function |-> IndicatorFunction(args), symbol |-> Arg(args, "symbol"),
          interval |-> Arg(args, "interval")]

\* the text of the block a handler returns when the gateway gave no data
\* (the string literals of lines 49, 84, 121, 156, 193, 230 and 268, in English)
FailureText(tool) ==
  CASE tool = "get_stock_price" -> <<"failed to fetch stock data">>
    [] tool = "get_company_overview" -> <<"failed to fetch company data">>
    [] tool = "get_daily_time_series" -> <<"failed to fetch time series data">>
    [] tool = "get_weekly_time_series" ->
         <<"failed to fetch weekly time series data">>
    [] tool = "get_forex_rate" -> <<"failed to fetch forex rate data">>
    [] tool = "get_crypto_price" -> <<"failed to fetch crypto price data">>
    [] tool = "get_technical_indicator" ->
         <<"failed to fetch technical indicator data">>

(***************************************************************************)
(* The request gateway, makeAlphaVantageRequest.                           *)
(***************************************************************************)
\* WithCredential forgetting the credential: { ...params }
WithoutCredential(params, key) == params

\* { ...params, apikey: API_KEY }
WithCredential(params, key) ==
  [k \in DOMAIN params \cup {"apikey"} |->
     IF k = "apikey" THEN key ELSE params[k]]

\* the query string axios sends: members whose value is undefined are left out
QueryOf(obj) ==
  [k \in {j \in DOMAIN obj : obj[j] # None} |-> obj[k][1]]

\* what the awaited axios.get can settle to: a 2xx response carrying parsed
\* data (an empty body is the empty string), or a rejection
Fulfilled(data) == [kind |-> "response", data |-> Some(data)]
Rejected(why) == [kind |-> "fault", data |-> None, why |-> why]

Faults == {"network error", "status 500", "timeout"}

\* the try block after the await: the value returned, or the error thrown
TryBody(outcome) ==
  IF outcome.kind = "fault" THEN [kind |-> "throw", value |-> None]
  ELSE IF Falsy(outcome.data[1]) THEN [kind |-> "throw", value |-> None]
  ELSE [kind |-> "return", value |-> outcome.data]

\* CatchBlock logging and rethrowing
CatchRethrows(thrown) == [kind |-> "throw", value |-> None, logged |-> TRUE]

\* the catch block: the error is logged and null is returned
CatchBlock(thrown) == [kind |-> "return", value |-> None, logged |-> TRUE]

\* how makeAlphaVantageRequest completes once axios.get has settled
GatewayCompletion(outcome) ==
  IF TryBody(outcome).kind = "throw" THEN CatchBlock(TryBody(outcome))
  ELSE [kind |-> "return", value |-> TryBody(outcome).value, logged |-> FALSE]

\* HandlerCompletion testing `data === undefined` instead of `!data`
HandlerCompletionStrict(tool, completion) ==
  IF completion.kind = "throw" THEN [kind |-> "throw", content |-> <<>>]
  ELSE [kind |-> "return",
        content |-> <<[type |-> "text",
                       text |-> IF completion.value = None THEN Stringify(JNull)
                                ELSE Stringify(completion.value[1])]>>]

\* the rest of a handler after its await: the promise it settles
HandlerCompletion(tool, completion) ==
  IF completion.kind = "throw" THEN [kind |-> "throw", content |-> <<>>]
  ELSE IF completion.value = None \/ Falsy(completion.value[1])
    THEN [kind |-> "return",
          content |-> <<[type |-> "text", text |-> FailureText(tool)]>>]
  ELSE [kind |-> "return",
        content |-> <<[type |-> "text", text |-> Stringify(completion.value[1])]>>]

(***************************************************************************)
(* Inputs: the environment, the arguments callers send, what the upstream  *)
(* answers.                                                                *)
(***************************************************************************)
\* ALPHA_VANTAGE_API_KEY in the environment: unset, empty, or a key
EnvValues == {None, Some(""), Some("demo")}

\* keys a caller may add that no schema declares
ExtraKeys == {"apikey", "function"}

ArgValues(k) ==
  CASE k = "symbol" -> {"AAPL", "BTC"}
    [] k = "outputsize" -> {"compact", "full", "huge"}
    [] k = "from_currency" -> {"USD"}
    [] k = "to_currency" -> {"EUR"}
    [] k = "market" -> {"USD"}
    [] k = "indicator" -> {"RSI", "SMA", "NOT_AN_INDICATOR", ""}
    [] k = "interval" -> {"daily", "60min", "yearly"}
    [] k = "apikey" -> {"EVIL"}
    [] k = "function" -> {"LISTING_STATUS"}

AllArgValues == UNION {ArgValues(k) : k \in UNION {SchemaKeys(t) : t \in ToolNames} \cup ExtraKeys}

\* the argument objects a caller may send to a tool
RawArgs ==
  [t \in ToolNames |->
     UNION {{f \in [K -> AllArgValues] : \A k \in K : f[k] \in ArgValues(k)} :
            K \in SUBSET (SchemaKeys(t) \cup ExtraKeys)}]

\* parsed response bodies the upstream may deliver
Payloads ==
  {JNull, JBool(FALSE), JBool(TRUE), JNum(0), JNum(42), JNum(-7),
   JStr(<<>>), JStr(<<"a", QUOTE, BACKSLASH, NL>>),
   JArr(<<>>), JObj(<<>>),
   JArr(<<JNum(0), JStr(<<"b">>), JArr(<<JNull>>)>>),
   JObj(<< <<(<<"N", "o", "t", "e">>), JStr(<<"l", "i", "m", "i", "t">>)>> >>),
   JObj(<< <<(<<"q">>), JObj(<< <<(<<"p">>), JNum(15)>>, <<(<<"k", QUOTE>>), JArr(<<>>)>> >>)>>,
           <<(<<"e">>), JBool(FALSE)>> >>)}

Outcomes == {Fulfilled(d) : d \in Payloads} \cup {Rejected(w) : w \in Faults}

(***************************************************************************)
(* State.                                                                  *)
(*   env        ALPHA_VANTAGE_API_KEY as the process finds it              *)
(*   API_KEY    the module constant of line 8                              *)
(*   pc         where the module body / main() stands                      *)
(*   tools      the tools registered on the server so far                  *)
(*   transport  "none", "created" or "connected"                           *)
(*   stdout     what was written to standard output, and by whom           *)
(*   stderr     what was written to standard error, and by whom            *)
(*   calls      the tool invocations in progress, by slot                  *)
(*   nCalls     the invocations accepted so far                            *)
(***************************************************************************)
Slots == 1..MaxInFlight

Idle == [pc |-> "idle"]

Line(by, what) == [by |-> by, what |-> what]

Init ==
  /\ env \in EnvValues
  /\ API_KEY = None
  /\ pc = "start"
  /\ tools = <<>>
  /\ transport = "none"
  /\ stdout = <<>>
  /\ stderr = <<>>
  /\ calls = [s \in Slots |-> Idle]
  /\ nCalls = 0

\* CredentialMissing testing only for the empty string
CredentialEmptyOnly(key) == key = Some("")

\* if (!API_KEY)
CredentialMissing(key) == key = None \/ key = Some("")

\* lines 8-17: read the credential, throw when it is missing, else construct
\* the server.  The uncaught Error ends the process; the runtime prints it.
LoadModule ==
  /\ pc = "start"
  /\ API_KEY' = env
  /\ IF CredentialMissing(env)
       THEN /\ pc' = "crashed"
            /\ stderr' = Append(stderr, Line("runtime", "uncaught Error"))
       ELSE /\ pc' = "registering"
            /\ UNCHANGED stderr
  /\ UNCHANGED <<env, tools, transport, stdout, calls, nCalls>>

\* lines 32-283: the next server.tool(...) call of the module body
RegisterTool ==
  /\ pc = "registering"
  /\ Len(tools) < Len(ToolOrder)
  /\ tools' = Append(tools, ToolOrder[Len(tools) + 1])
  /\ UNCHANGED <<env, API_KEY, pc, transport, stdout, stderr, calls, nCalls>>

\* lines 306-307 and 311: main() creates the transport and calls connect
StartMain ==
  /\ pc = "registering"
  /\ Len(tools) = Len(ToolOrder)
  /\ transport' = "created"
  /\ pc' = "connecting"
  /\ UNCHANGED <<env, API_KEY, tools, stdout, stderr, calls, nCalls>>

\* line 307: the awaited connect resolves
ConnectOk ==
  /\ pc = "connecting"
  /\ transport' = "connected"
  /\ pc' = "connected"
  /\ UNCHANGED <<env, API_KEY, tools, stdout, stderr, calls, nCalls>>

\* lines 311-314: the awaited connect rejects; main().catch logs and exits
ConnectFail ==
  /\ pc = "connecting"
  /\ stderr' = Append(stderr, Line("program", "fatal error in main()"))
  /\ pc' = "exited"
  /\ UNCHANGED <<env, API_KEY, tools, transport, stdout, calls, nCalls>>

\* line 308: console.log writes the startup banner to standard output
Banner ==
  /\ pc = "connected"
  /\ stdout' = Append(stdout, Line("program", "banner"))
  /\ pc' = "serving"
  /\ UNCHANGED <<env, API_KEY, tools, transport, stderr, calls, nCalls>>

\* AwaitedOutcome with `response` kept in a variable all invocations share:
\* the continuation sees whichever response was stored, not its own
SharedOutcome(s) ==
  LET others == {r \in DOMAIN calls :
                   r # s /\ calls[r].pc \in {"settled", "resumed", "completed"}}
  IN IF others = {} THEN calls[s].outcome
     ELSE calls[CHOOSE r \in others : TRUE].outcome

\* the settled value the continuation of `await axios.get(...)` in slot s sees
AwaitedOutcome(s) == calls[s].outcome

\* a tools/call request arrives: the schema layer parses the arguments and
\* either rejects the call or hands the parsed object to the tool's callback
CallTool(s, tool, raw) ==
  /\ pc = "serving"
  /\ calls[s].pc = "idle"
  /\ nCalls < MaxCalls
  /\ tool \in {tools[i] : i \in 1..Len(tools)}
  /\ nCalls' = nCalls + 1
  /\ calls' = [calls EXCEPT ![s] =
       IF ArgsValid(tool, raw)
         THEN [pc |-> "validated", tool |-> tool, raw |-> raw,
               args |-> ParsedArgs(tool, raw)]
         ELSE [pc |-> "rejected", tool |-> tool, raw |-> raw]]
  /\ UNCHANGED <<env, API_KEY, pc, tools, transport, stdout, stderr>>

\* the callback runs up to its await: it builds the parameter object and
\* makeAlphaVantageRequest issues axios.get (lines 285-292)
HandlerStart(s) ==
  /\ calls[s].pc = "validated"
  /\ calls' = [calls EXCEPT ![s] =
       [pc |-> "awaiting", tool |-> calls[s].tool, raw |-> calls[s].raw,
        args |-> calls[s].args,
        query |-> QueryOf(WithCredential(ParamsOf(calls[s].tool, calls[s].args),
                                         API_KEY))]]
  /\ UNCHANGED <<env, API_KEY, pc, tools, transport, stdout, stderr, nCalls>>

\* the HTTP exchange of slot s ends: axios.get settles
Settle(s, outcome) ==
  /\ calls[s].pc = "awaiting"
  /\ calls' = [calls EXCEPT ![s] =
       [pc |-> "settled", tool |-> calls[s].tool, raw |-> calls[s].raw,
        args |-> calls[s].args, query |-> calls[s].query,
        outcome |-> outcome]]
  /\ UNCHANGED <<env, API_KEY, pc, tools, transport, stdout, stderr, nCalls>>

\* lines 294-302: makeAlphaVantageRequest resumes and completes
GatewayResume(s) ==
  /\ calls[s].pc = "settled"
  /\ LET done == GatewayCompletion(AwaitedOutcome(s)) IN
       /\ calls' = [calls EXCEPT ![s] =
            [pc |-> "resumed", tool |-> calls[s].tool, raw |-> calls[s].raw,
             args |-> calls[s].args, query |-> calls[s].query,
             outcome |-> calls[s].outcome,
             gateway |-> [kind |-> done.kind, value |-> done.value]]]
       /\ stderr' = IF done.logged
                      THEN Append(stderr, Line("program", "request failed"))
                      ELSE stderr
  /\ UNCHANGED <<env, API_KEY, pc, tools, transport, stdout, nCalls>>

\* the callback resumes after its await and settles its promise
HandlerResume(s) ==
  /\ calls[s].pc = "resumed"
  /\ calls' = [calls EXCEPT ![s] =
       [pc |-> "completed", tool |-> calls[s].tool, raw |-> calls[s].raw,
        args |-> calls[s].args, query |-> calls[s].query,
        outcome |-> calls[s].outcome, gateway |-> calls[s].gateway,
        result |-> HandlerCompletion(calls[s].tool, calls[s].gateway)]]
  /\ UNCHANGED <<env, API_KEY, pc, tools, transport, stdout, stderr, nCalls>>

\* the transport writes the reply of a finished or rejected call
Respond(s) ==
  /\ calls[s].pc \in {"completed", "rejected"}
  /\ stdout' = Append(stdout, Line("transport", "reply"))
  /\ calls' = [calls EXCEPT ![s] = Idle]
  /\ UNCHANGED <<env, API_KEY, pc, tools, transport, stderr, nCalls>>

\* the slot a new invocation is filed under
FreeSlot == CHOOSE s \in DOMAIN calls :
  calls[s].pc = "idle" /\ \A r \in DOMAIN calls : calls[r].pc = "idle" => s <= r

NoCallInProgress == \A s \in DOMAIN calls : calls[s].pc = "idle"

SomeSlotFree == \E s \in DOMAIN calls : calls[s].pc = "idle"

\* One invocation at a time, over every argument object and every outcome.
Next ==
  \/ LoadModule
  \/ RegisterTool
  \/ StartMain
  \/ ConnectOk
  \/ ConnectFail
  \/ Banner
  \/ \E t \in ToolNames : \E raw \in RawArgs[t] :
       NoCallInProgress /\ CallTool(FreeSlot, t, raw)
  \/ \E s \in DOMAIN calls : HandlerStart(s)
  \/ \E s \in DOMAIN calls, o \in Outcomes : Settle(s, o)
  \/ \E s \in DOMAIN calls : GatewayResume(s)
  \/ \E s \in DOMAIN calls : HandlerResume(s)
  \/ \E s \in DOMAIN calls : Respond(s)

Spec == Init /\ [][Next]_vars

\* the argument objects and outcomes of the interleaving runs: one valid
\* object per tool, two different payloads, an empty body and a fault
ConcArgs ==
  [t \in ToolNames |->
     CASE t = "get_stock_price" -> {[symbol |-> "AAPL"]}
       [] t = "get_company_overview" -> {[symbol |-> "BTC"]}
       [] t = "get_daily_time_series" -> {[symbol |-> "AAPL", outputsize |-> "full"]}
       [] t = "get_weekly_time_series" -> {[symbol |-> "BTC", apikey |-> "EVIL"]}
       [] t = "get_forex_rate" -> {[from_currency |-> "USD", to_currency |-> "EUR"]}
       [] t = "get_crypto_price" -> {[symbol |-> "BTC", market |-> "USD"]}
       [] t = "get_technical_indicator" -> {[symbol |-> "AAPL", indicator |-> "RSI"]}]

ConcOutcomes ==
  {Fulfilled(JNum(42)), Fulfilled(JObj(<<>>)), Fulfilled(JStr(<<>>)),
   Rejected("network error")}

\* Up to MaxInFlight invocations suspended at once, resumed in any order.
NextConc ==
  \/ LoadModule
  \/ RegisterTool
  \/ StartMain
  \/ ConnectOk
  \/ ConnectFail
  \/ Banner
  \/ \E t \in ToolNames : \E raw \in ConcArgs[t] :
       SomeSlotFree /\ CallTool(FreeSlot, t, raw)
  \/ \E s \in DOMAIN calls : HandlerStart(s)
  \/ \E s \in DOMAIN calls, o \in ConcOutcomes : Settle(s, o)
  \/ \E s \in DOMAIN calls : GatewayResume(s)
  \/ \E s \in DOMAIN calls : HandlerResume(s)
  \/ \E s \in DOMAIN calls : Respond(s)

SpecConc == Init /\ [][NextConc]_vars

(***************************************************************************)
(* Vocabulary of the properties.                                           *)
(***************************************************************************)
Issued(c) == c.pc \in {"awaiting", "settled", "resumed", "completed"}

Resumed(c) == c.pc \in {"resumed", "completed"}

Completed(c) == c.pc = "completed"

\* the upstream gave no usable body: a fault, or an empty body
NoData(o) == o.kind = "fault" \/ o.data[1] = JStr(<<>>)

OneTextBlock(r) ==
  r.kind = "return" /\ Len(r.content) = 1 /\ r.content[1].type = "text"

\* the value a caller gave for argument k of tool t, the declared default
\* standing in for an optional argument left out
CallerValue(c, k) ==
  IF k \in DOMAIN c.raw THEN c.raw[k]
  ELSE IF k = "outputsize" THEN "compact"
  ELSE IF k = "interval" THEN "daily"
  ELSE "<missing>"

\* the argument columns of the 4.1 table
TableFields(t) ==
  CASE t = "get_stock_price" -> {"symbol"}
    [] t = "get_company_overview" -> {"symbol"}
    [] t = "get_daily_time_series" -> {"symbol", "outputsize"}
    [] t = "get_weekly_time_series" -> {"symbol"}
    [] t = "get_forex_rate" -> {"from_currency", "to_currency"}
    [] t = "get_crypto_price" -> {"symbol", "market"}
    [] t = "get_technical_indicator" -> {"symbol", "indicator", "interval"}

\* the "upstream function" column of the 4.1 table, for the six fixed rows
TableFunction(t) ==
  CASE t = "get_stock_price" -> "GLOBAL_QUOTE"
    [] t = "get_company_overview" -> "OVERVIEW"
    [] t = "get_daily_time_series" -> "TIME_SERIES_DAILY"
    [] t = "get_weekly_time_series" -> "TIME_SERIES_WEEKLY"
    [] t = "get_forex_rate" -> "CURRENCY_EXCHANGE_RATE"
    [] t = "get_crypto_price" -> "CRYPTO_INTRADAY"
    [] t = "get_technical_indicator" -> "<value of indicator>"

\* the fields a tool sends under their own name
SentFields(t) == TableFields(t) \ {"indicator"}

\* the query of call c is the one its own tool and arguments call for
OwnQuery(c) ==
  /\ DOMAIN c.query = {"function", "apikey"} \cup SentFields(c.tool)
  /\ \A k \in SentFields(c.tool) : c.query[k] = CallerValue(c, k)
  /\ c.query["function"] =
       IF c.tool = "get_technical_indicator" THEN CallerValue(c, "indicator")
       ELSE TableFunction(c.tool)
  /\ env # None /\ c.query["apikey"] = env[1]

\* the result of call c is the rendering of the outcome of its own request
OwnResult(c) ==
  /\ OneTextBlock(c.result)
  /\ c.result.content[1].text =
       IF c.outcome.kind = "response" /\ ~Falsy(c.outcome.data[1])
         THEN Stringify(c.outcome.data[1])
         ELSE FailureText(c.tool)

(***************************************************************************)
(* JSON.parse, as a caller applies it to the text of a returned block.     *)
(* Every parser returns <<value, rest of the text>>; <<"invalid">> stands   *)
(* for a SyntaxError.                                                      *)
(***************************************************************************)
Invalid == <<"invalid">>

Peek(t) == IF t = <<>> THEN "" ELSE Head(t)

Drop(t, n) == IF Len(t) <= n THEN <<>> ELSE SubSeq(t, n + 1, Len(t))

StartsWith(t, word) == Len(t) >= Len(word) /\ SubSeq(t, 1, Len(word)) = word

IsDigit(c) == \E i \in 1..10 : DigitChar[i] = c

DigitValue(c) == (CHOOSE i \in 1..10 : DigitChar[i] = c) - 1

RECURSIVE SkipSpace(_)
SkipSpace(t) ==
  IF Peek(t) = " " \/ Peek(t) = NL THEN SkipSpace(Tail(t)) ELSE t

RECURSIVE ParseDigits(_, _)
ParseDigits(t, acc) ==
  IF IsDigit(Peek(t)) THEN ParseDigits(Tail(t), acc * 10 + DigitValue(Head(t)))
  ELSE <<JNum(acc), t>>

ParseNumber(t) ==
  IF Peek(t) = "-"
    THEN IF IsDigit(Peek(Tail(t)))
           THEN LET r == ParseDigits(Tail(t), 0) IN <<JNum(0 - r[1][2]), r[2]>>
           ELSE <<Invalid, <<>>>>
    ELSE ParseDigits(t, 0)

\* the characters of a string literal after its opening quote
RECURSIVE ParseChars(_, _)
ParseChars(t, acc) ==
  IF t = <<>> THEN <<Invalid, <<>>>>
  ELSE IF Head(t) = QUOTE THEN <<acc, Tail(t)>>
  ELSE IF Head(t) = NL THEN <<Invalid, <<>>>>
  ELSE IF Head(t) = BACKSLASH
    THEN IF Len(t) < 2 THEN <<Invalid, <<>>>>
         ELSE IF t[2] = "n" THEN ParseChars(Drop(t, 2), Append(acc, NL))
         ELSE IF t[2] = QUOTE \/ t[2] = BACKSLASH
           THEN ParseChars(Drop(t, 2), Append(acc, t[2]))
         ELSE <<Invalid, <<>>>>
  ELSE ParseChars(Tail(t), Append(acc, Head(t)))

RECURSIVE ParseValue(_), ParseItems(_, _), ParseMembers(_, _)
ParseValue(text) ==
  LET t == SkipSpace(text) IN
    IF StartsWith(t, <<"n", "u", "l", "l">>) THEN <<JNull, Drop(t, 4)>>
    ELSE IF StartsWith(t, <<"t", "r", "u", "e">>) THEN <<JBool(TRUE), Drop(t, 4)>>
    ELSE IF StartsWith(t, <<"f", "a", "l", "s", "e">>)
      THEN <<JBool(FALSE), Drop(t, 5)>>
    ELSE IF Peek(t) = QUOTE
      THEN LET r == ParseChars(Tail(t), <<>>) IN
             IF r[1] = Invalid THEN r ELSE <<JStr(r[1]), r[2]>>
    ELSE IF Peek(t) = "[" THEN
      IF Peek(SkipSpace(Tail(t))) = "]"
        THEN <<JArr(<<>>), Tail(SkipSpace(Tail(t)))>>
        ELSE ParseItems(Tail(t), <<>>)
    ELSE IF Peek(t) = "{" THEN
      IF Peek(SkipSpace(Tail(t))) = "}"
        THEN <<JObj(<<>>), Tail(SkipSpace(Tail(t)))>>
        ELSE ParseMembers(Tail(t), <<>>)
    ELSE IF Peek(t) = "-" \/ IsDigit(Peek(t)) THEN ParseNumber(t)
    ELSE <<Invalid, <<>>>>

\* the elements of a non-empty array, after "[" or ","
ParseItems(text, acc) ==
  LET r == ParseValue(text)
      t == SkipSpace(r[2])
  IN IF r[1] = Invalid THEN r
     ELSE IF Peek(t) = "," THEN ParseItems(Tail(t), Append(acc, r[1]))
     ELSE IF Peek(t) = "]" THEN <<JArr(Append(acc, r[1])), Tail(t)>>
     ELSE <<Invalid, <<>>>>

\* the members of a non-empty object, after "{" or ","
ParseMembers(text, acc) ==
  LET t0 == SkipSpace(text)
      k == IF Peek(t0) = QUOTE THEN ParseChars(Tail(t0), <<>>)
           ELSE <<Invalid, <<>>>>
      t1 == SkipSpace(k[2])
      r == IF Peek(t1) = ":" THEN ParseValue(Tail(t1)) ELSE <<Invalid, <<>>>>
      t == SkipSpace(r[2])
  IN IF k[1] = Invalid \/ r[1] = Invalid THEN <<Invalid, <<>>>>
     ELSE IF Peek(t) = "," THEN ParseMembers(Tail(t), Append(acc, <<k[1], r[1]>>))
     ELSE IF Peek(t) = "}" THEN <<JObj(Append(acc, <<k[1], r[1]>>)), Tail(t)>>
     ELSE <<Invalid, <<>>>>

JsonParse(text) ==
  LET r == ParseValue(text) IN
    IF r[1] # Invalid /\ SkipSpace(r[2]) = <<>> THEN r[1] ELSE Invalid

(***************************************************************************)
(* The claims.                                                             *)
(***************************************************************************)

\* C1: whatever the awaited axios.get settles to (a payload, an empty body, a
\* fault), makeAlphaVantageRequest completes by returning, never by throwing,
\* and the handler settles with a normal result whose content is exactly one
\* text block holding either the serialized payload or a failure string.
C1_SingleTextBlockNoThrow ==
  \A s \in DOMAIN calls :
    /\ Resumed(calls[s]) => calls[s].gateway.kind = "return"
    /\ Completed(calls[s]) =>
         /\ OneTextBlock(calls[s].result)
         /\ \/ /\ calls[s].outcome.kind = "response"
               /\ calls[s].result.content[1].text =
                    Stringify(calls[s].outcome.data[1])
            \/ \E t \in ToolNames :
                 calls[s].result.content[1].text = FailureText(t)

C1_Witness ==
  \E s \in DOMAIN calls :
    /\ Completed(calls[s])
    /\ calls[s].outcome.kind = "fault"
    /\ OneTextBlock(calls[s].result)

\* C2 (as claimed): whenever the upstream answers with a non-empty payload P
\* (object, array, string, number or boolean), the gateway returns P and the
\* text block is P as indented JSON, which JSON.parse maps back to P.
C2_NonEmptyPayloadRoundTrips ==
  \A s \in DOMAIN calls :
    (/\ Completed(calls[s])
     /\ calls[s].outcome.kind = "response"
     /\ calls[s].outcome.data[1][1] \in {"obj", "arr", "str", "num", "bool"}
     /\ calls[s].outcome.data[1] # JStr(<<>>))
    => /\ calls[s].gateway.value = calls[s].outcome.data
       /\ OneTextBlock(calls[s].result)
       /\ calls[s].result.content[1].text = Stringify(calls[s].outcome.data[1])
       /\ JsonParse(calls[s].result.content[1].text) = calls[s].outcome.data[1]

\* C3: when the upstream gives an empty body or the HTTP call faults, the
\* result is one text block whose text is the failure message of the tool
\* called, whatever the arguments and whatever the cause; the seven messages
\* differ from each other; the failure is logged and the process keeps serving.
C3_FixedFailureMessage ==
  /\ \A t1, t2 \in ToolNames : t1 # t2 => FailureText(t1) # FailureText(t2)
  /\ \A s \in DOMAIN calls :
       (Completed(calls[s]) /\ NoData(calls[s].outcome)) =>
         /\ OneTextBlock(calls[s].result)
         /\ calls[s].result.content[1].text = FailureText(calls[s].tool)
         /\ pc = "serving"
         /\ \A i \in 1..Len(stderr) : stderr[i].by = "program"

C3_Witness ==
  \E s \in DOMAIN calls :
    /\ Completed(calls[s])
    /\ calls[s].tool = "get_technical_indicator"
    /\ calls[s].outcome = Fulfilled(JStr(<<>>))
    /\ calls[s].result.content[1].text = FailureText("get_technical_indicator")
    /\ stderr # <<>>

\* C4: when ALPHA_VANTAGE_API_KEY is not set, the process ends at the check of
\* lines 10-12 with a diagnostic: no tool is ever registered, no transport is
\* created or connected, no invocation runs and no request is issued.
C4_MissingCredentialStopsStartup ==
  env = None =>
    /\ pc \in {"start", "crashed"}
    /\ tools = <<>>
    /\ transport = "none"
    /\ nCalls = 0
    /\ \A s \in DOMAIN calls : calls[s].pc = "idle"
    /\ stdout = <<>>
    /\ pc = "crashed" => stderr = <<Line("runtime", "uncaught Error")>>

C4_Witness == env = None /\ pc = "crashed" /\ stderr # <<>>

\* C5: every request issued carries a `function` value and an `apikey` equal
\* to the credential read at startup, which is present; an `apikey` among the
\* caller's arguments neither replaces nor removes it.
C5_RequestCarriesCredential ==
  \A s \in DOMAIN calls :
    Issued(calls[s]) =>
      /\ env # None /\ env # Some("") /\ API_KEY = env
      /\ "function" \in DOMAIN calls[s].query
      /\ "apikey" \in DOMAIN calls[s].query
      /\ calls[s].query["apikey"] = env[1]

C5_Witness ==
  \E s \in DOMAIN calls :
    /\ Issued(calls[s])
    /\ "apikey" \in DOMAIN calls[s].raw
    /\ calls[s].raw["apikey"] # calls[s].query["apikey"]

\* C6 (as claimed): the query of every request is exactly `function`, `apikey`
\* and the argument fields of the tool's row of the 4.1 table, with the
\* caller's values, the six fixed rows sending their own discriminator.
C6_QueryIsTableRow ==
  \A s \in DOMAIN calls :
    Issued(calls[s]) =>
      /\ DOMAIN calls[s].query =
           {"function", "apikey"} \cup TableFields(calls[s].tool)
      /\ \A k \in TableFields(calls[s].tool) \cap DOMAIN calls[s].query :
           calls[s].query[k] = CallerValue(calls[s], k)
      /\ calls[s].tool # "get_technical_indicator" =>
           calls[s].query["function"] = TableFunction(calls[s].tool)

\* C6 (amended): the query of every request is exactly `function`, `apikey`
\* and the argument fields of the tool's table row other than `indicator`,
\* with the caller's values (the default for an optional argument left out);
\* the six fixed rows send their own discriminator and get_technical_indicator
\* sends the indicator as the value of `function`.  get_forex_rate(USD, EUR)
\* sends function=CURRENCY_EXCHANGE_RATE, from_currency=USD, to_currency=EUR
\* and the credential.
C6_QueryParameters ==
  \A s \in DOMAIN calls :
    Issued(calls[s]) =>
      /\ OwnQuery(calls[s])
      /\ calls[s].tool = "get_forex_rate" =>
           calls[s].query =
             [function |-> "CURRENCY_EXCHANGE_RATE", from_currency |-> "USD",
              to_currency |-> "EUR", apikey |-> env[1]]

C6_Witness ==
  \E s \in DOMAIN calls :
    /\ Issued(calls[s])
    /\ calls[s].tool = "get_forex_rate"
    /\ calls[s].raw = [from_currency |-> "USD", to_currency |-> "EUR"]
    /\ DOMAIN calls[s].query =
         {"function", "from_currency", "to_currency", "apikey"}

\* C7: get_technical_indicator sends its `indicator` argument as the value of
\* `function`, whatever string it is, and never rejects a call because of the
\* value of `indicator`.
C7_IndicatorIsFunction ==
  \A s \in DOMAIN calls :
    calls[s].pc # "idle" /\ calls[s].tool = "get_technical_indicator" =>
      /\ Issued(calls[s]) => calls[s].query["function"] = calls[s].raw["indicator"]
      /\ calls[s].pc = "rejected" =>
           \/ "symbol" \notin DOMAIN calls[s].raw
           \/ "indicator" \notin DOMAIN calls[s].raw
           \/ /\ "interval" \in DOMAIN calls[s].raw
              /\ calls[s].raw["interval"] \notin Intervals

C7_Witness ==
  \E s \in DOMAIN calls :
    /\ Issued(calls[s])
    /\ calls[s].tool = "get_technical_indicator"
    /\ calls[s].raw["indicator"] = "NOT_AN_INDICATOR"
    /\ calls[s].query["function"] = "NOT_AN_INDICATOR"

\* C8: get_daily_time_series with a symbol and no `outputsize` is accepted and
\* requests outputsize=compact; with outputsize compact or full it requests
\* that value; with any other outputsize it is rejected and issues no request.
C8_OutputsizeDefaultAndEnum ==
  \A s \in DOMAIN calls :
    (/\ calls[s].pc # "idle"
     /\ calls[s].tool = "get_daily_time_series"
     /\ "symbol" \in DOMAIN calls[s].raw) =>
      IF "outputsize" \notin DOMAIN calls[s].raw
        THEN /\ calls[s].pc # "rejected"
             /\ Issued(calls[s]) => calls[s].query["outputsize"] = "compact"
      ELSE IF calls[s].raw["outputsize"] \in {"compact", "full"}
        THEN /\ calls[s].pc # "rejected"
             /\ Issued(calls[s]) =>
                  calls[s].query["outputsize"] = calls[s].raw["outputsize"]
      ELSE calls[s].pc = "rejected"

C8_Witness ==
  \E s \in DOMAIN calls :
    /\ Issued(calls[s])
    /\ calls[s].tool = "get_daily_time_series"
    /\ "outputsize" \notin DOMAIN calls[s].raw
    /\ calls[s].query["outputsize"] = "compact"

\* C9: with several invocations suspended at once and resumed in any order,
\* the request of each carries the parameters of its own tool and arguments,
\* the result of each renders the outcome of its own request, and the
\* credential they share is never written after startup.
C9_NoCrossContamination ==
  /\ pc # "start" => API_KEY = env
  /\ \A s \in DOMAIN calls :
       /\ Issued(calls[s]) => OwnQuery(calls[s])
       /\ Completed(calls[s]) => OwnResult(calls[s])

C9_Witness ==
  \E s, r \in DOMAIN calls :
    /\ Completed(calls[s]) /\ Completed(calls[r])
    /\ calls[s].tool = "get_crypto_price"
    /\ calls[r].tool = "get_stock_price"
    /\ calls[s].outcome = Rejected("network error")
    /\ calls[r].outcome = Fulfilled(JNum(42))
    /\ calls[s].result # calls[r].result

\* C10 (as claimed): everything on standard output was written by the
\* transport; the program itself writes nothing there.
C10_StdoutOnlyTransport ==
  \A i \in 1..Len(stdout) : stdout[i].by = "transport"

====
